---- MODULE Spec2Model ----
(***************************************************************************)
(* Stargazer: the generate run (runGenerate -> fetchAndProcessStars ->     *)
(* DefaultFetchStars | testStars -> writeList), with the paginated fetch   *)
(* loop, the local rate limiter, the remote quota window and the           *)
(* rate-limit state file.                                                  *)
(*                                                                         *)
(* Strings are sequences of ASCII codes, so that strings.ToLower and the   *)
(* byte-wise string order of Go are computed, not assumed.  Times are      *)
(* milliseconds since the start of the process; the zero time.Time is 0.   *)
(***************************************************************************)
EXTENDS Integers, Sequences, FiniteSets, TLC

VARIABLES
    config,         \* *Config built by runGenerate
    ignored,        \* package variable `ignored []string`
    query,          \* package variable `query` (the last decoded response)
    pc,             \* position of the run
    vars,           \* query variables of DefaultFetchStars (the cursor)
    stars,          \* DefaultFetchStars: map language -> []Star
    total,          \* DefaultFetchStars: included count
    rateLimiter,    \* rate.Limiter: earliest time of the next grant, interval
    rateLimitInfo,  \* DefaultFetchStars: last known RateLimitInfo
    rateFile,       \* rate_limit_info.json on disk
    ctxDeadline,    \* deadline of ctx
    now,            \* wall clock
    remote,         \* the remote API: pages served, quota window
    queries,        \* log of the queries issued: cursor, time, outcome
    ret,            \* what DefaultFetchStars / testStars returned
    result,         \* what fetchAndProcessStars returned
    written,        \* the calls of writeList
    got,            \* the last direct call of a package function: input, output
    ref             \* the same run with every load and save succeeding

allvars == <<config, ignored, query, pc, vars, stars, total, rateLimiter,
             rateLimitInfo, rateFile, ctxDeadline, now, remote, queries,
             ret, result, written, got, ref>>

----------------------------------------------------------------------------
(* Bounds of the model *)

MaxPages == 2           \* pages the remote serves in one run
MaxEdges == 2           \* edges on one page
MaxRateLimitErrors == 2 \* quota-exhausted responses in one run

(* Program constants *)

Timeout == 180000       \* time.Minute*3, in ms
Second == 1000          \* time.Second, in ms
DefaultRateLimit == 5   \* --rate-limit default

----------------------------------------------------------------------------
(* Strings *)

\* "a", "A", "B", "_", "aa" and the names of the built-in test data
S_a == <<97>>
S_A == <<65>>
S_b == <<98>>
S_B == <<66>>
S_us == <<95>>
S_aa == <<97, 97>>
S_Aa == <<65, 97>>
S_empty == <<>>
\* "jmelfi/stargazer"
S_stargazer == <<106,109,101,108,102,105,47,115,116,97,114,103,97,122,101,114>>
\* "JMelfi/Stargazer"
S_Stargazer == <<74,77,101,108,102,105,47,83,116,97,114,103,97,122,101,114>>
\* "jmelfi/stars"
S_stars == <<106,109,101,108,102,105,47,115,116,97,114,115>>
\* "jmelfi/test"
S_test == <<106,109,101,108,102,105,47,116,101,115,116>>
\* "rverst/test_2"
S_test2 == <<114,118,101,114,115,116,47,116,101,115,116,95,50>>
\* "jmelfi/test_3"
S_test3 == <<106,109,101,108,102,105,47,116,101,115,116,95,51>>

\* unicode.ToLower on an ASCII code
LowerChar(c) == IF c >= 65 /\ c <= 90 THEN c + 32 ELSE c

\* strings.ToLower
ToLower(s) == [i \in 1..Len(s) |-> LowerChar(s[i])]

\* Go's s < t on strings: byte-wise lexicographic
RECURSIVE StrLess(_, _)
StrLess(s, t) ==
    IF t = <<>> THEN FALSE
    ELSE IF s = <<>> THEN TRUE
    ELSE IF Head(s) # Head(t) THEN Head(s) < Head(t)
    ELSE StrLess(Tail(s), Tail(t))

----------------------------------------------------------------------------
(* isIgnored *)

RECURSIVE IgnoredFrom(_, _, _)
IgnoredFrom(list, k, name) ==
    IF k > Len(list) THEN FALSE
    ELSE IF ToLower(list[k]) = ToLower(name) THEN TRUE
    ELSE IgnoredFrom(list, k + 1, name)

isIgnoredExact(name) ==
    \E k \in 1..Len(ignored) : ignored[k] = name

isIgnored(name) ==
    IF Len(ignored) = 0 THEN FALSE
    ELSE IgnoredFrom(ignored, 1, name)

----------------------------------------------------------------------------
(* determineLanguage, determineLicense *)

L_Unknown == "Unknown"
S_other == <<111,116,104,101,114>>

determineLanguage(languages) ==
    IF Len(languages) > 0 THEN languages[1] ELSE L_Unknown

\* determineLicense comparing the name with "other" as written
determineLicenseCased(licenseInfo) ==
    IF licenseInfo.Nickname # <<>> THEN licenseInfo.Nickname
    ELSE IF licenseInfo.Name # <<>> /\ licenseInfo.Name # S_other
         THEN licenseInfo.Name
    ELSE <<>>

determineLicense(licenseInfo) ==
    IF licenseInfo.Nickname # <<>> THEN licenseInfo.Nickname
    ELSE IF licenseInfo.Name # <<>> /\ ToLower(licenseInfo.Name) # S_other
         THEN licenseInfo.Name
    ELSE <<>>

----------------------------------------------------------------------------
(* Values *)

Max(a, b) == IF a >= b THEN a ELSE b

NoErr == <<>>

\* error texts, as the fragments strings.Contains can find
ErrRateLimited == <<"non-200 OK status code: 403", "API rate limit exceeded">>
ErrRemote == <<"non-200 OK status code: 502">>
ErrDeadline == <<"context deadline exceeded">>
ErrWouldExceed == <<"rate: Wait(n=1) would exceed context deadline">>

isRateLimitError(err) ==
    \E i \in 1..Len(err) : err[i] = "API rate limit exceeded"

ZeroRateLimit == [Limit |-> 0, Remaining |-> 0, ResetAt |-> 0]

ZeroQuery ==
    [RateLimit |-> ZeroRateLimit,
     Edges |-> <<>>,
     PageInfo |-> [EndCursor |-> 0, HasNextPage |-> FALSE]]

ZeroStar == [NameWithOwner |-> <<>>, License |-> <<>>, Archived |-> FALSE]

EmptyMap == [k \in {} |-> <<>>]

\* "MIT", "Other", "MIT License"
S_MIT == <<77,73,84>>
S_Other == <<79,116,104,101,114>>
S_MITLicense == <<77,73,84,32,76,105,99,101,110,115,101>>

\* The repositories the user may have starred, most recently starred first
\* (the remote orders the edges by STARRED_AT, descending; one edge per
\* repository): "B", "_" (private), "aa" (no language), "a"
Repos ==
    << [NameWithOwner |-> S_B, IsPrivate |-> FALSE, IsArchived |-> TRUE,
        Languages |-> <<"Go">>,
        LicenseInfo |-> [Name |-> S_Other, Nickname |-> <<>>]],
       [NameWithOwner |-> S_us, IsPrivate |-> TRUE, IsArchived |-> FALSE,
        Languages |-> <<"Go">>,
        LicenseInfo |-> [Name |-> <<>>, Nickname |-> <<>>]],
       [NameWithOwner |-> S_aa, IsPrivate |-> FALSE, IsArchived |-> FALSE,
        Languages |-> <<>>,
        LicenseInfo |-> [Name |-> S_Other, Nickname |-> S_MIT]],
       [NameWithOwner |-> S_a, IsPrivate |-> FALSE, IsArchived |-> FALSE,
        Languages |-> <<"Go">>,
        LicenseInfo |-> [Name |-> S_MIT, Nickname |-> <<>>]] >>

IgnoreLists == { <<>>, <<S_A>>, <<S_b, S_Stargazer>> }

RateLimits == {0, DefaultRateLimit}

Tokens == {"", "tok"}

\* round trip of one query, ms: answered within the limiter's interval, or
\* not answered before the deadline of ctx
Latencies == {100, 200000}

ResetTimes == {60000, 240000}       \* end of the remote's current quota window

QuotaWindow == 3600000              \* length of a quota window of the remote
QuotaLimit == 5000                  \* ceiling of a quota window of the remote

\* what rate_limit_info.json may hold when the run starts
OldWindow == [limit |-> 5000, remaining |-> 7, reset_at |-> 0]
FileMissing == [kind |-> "missing", data |-> OldWindow]
FileCorrupt == [kind |-> "corrupt", data |-> OldWindow]
FileOf(data) == [kind |-> "json", data |-> data]

\* json.Marshal / json.Unmarshal of RateLimitInfo, by its json tags
Marshal(info) ==
    [limit |-> info.Limit, remaining |-> info.Remaining, reset_at |-> info.ResetAt]

Unmarshal(data) ==
    [Limit |-> data.limit, Remaining |-> data.remaining, ResetAt |-> data.reset_at]

\* loadRateLimitInfo: (info, err)
loadRateLimitInfo ==
    IF rateFile.kind = "missing"
    THEN [info |-> ZeroRateLimit, err |-> <<"open rate_limit_info.json: no such file">>]
    ELSE IF rateFile.kind = "corrupt"
    THEN [info |-> ZeroRateLimit, err |-> <<"invalid character">>]
    ELSE [info |-> Unmarshal(rateFile.data), err |-> NoErr]

\* saveRateLimitInfo writing the window held before the page instead of info
saveRateLimitInfoStale(info, writeErr) ==
    IF writeErr = NoErr THEN FileOf(Marshal(rateLimitInfo)) ELSE rateFile

\* saveRateLimitInfo: the file after the call, given os.WriteFile's outcome
saveRateLimitInfo(info, writeErr) ==
    IF writeErr = NoErr THEN FileOf(Marshal(info)) ELSE rateFile

SaveErrors == {NoErr, <<"write rate_limit_info.json: no space left on device">>}

\* the entries of Repos at the indices I, in the order of Repos
RECURSIVE EdgesAt(_)
EdgesAt(I) ==
    IF I = {} THEN <<>>
    ELSE LET i == CHOOSE x \in I : \A y \in I : x <= y
         IN  <<Repos[i]>> \o EdgesAt(I \ {i})

\* the pages of at most n edges the remote may serve after entry `last`
EdgeLists(last, n) ==
    { EdgesAt(I) : I \in { J \in SUBSET ((last + 1)..Len(Repos)) :
                              Cardinality(J) <= n } }

Range(f) == { f[i] : i \in DOMAIN f }

----------------------------------------------------------------------------
(* DefaultFetchStars: one page's edges (logger.go 159-183) *)

NewStar(e) ==
    [NameWithOwner |-> e.NameWithOwner,
     License |-> determineLicense(e.LicenseInfo),
     Archived |-> e.IsArchived]

Put(m, k, v) == [x \in DOMAIN m \cup {k} |-> IF x = k THEN v ELSE m[x]]

SkippedPrivateOnly(e) == e.IsPrivate

Skipped(e) == e.IsPrivate \/ isIgnored(e.NameWithOwner)

AppendStar(acc, e) ==
    LET lng == determineLanguage(e.Languages)
        lst == IF lng \in DOMAIN acc.stars THEN acc.stars[lng] ELSE <<>>
    IN  [stars |-> Put(acc.stars, lng, Append(lst, NewStar(e))),
         total |-> acc.total + 1]

RECURSIVE ProcessEdges(_, _, _)
ProcessEdges(edges, k, acc) ==
    IF k > Len(edges) THEN acc
    ELSE IF Skipped(edges[k]) THEN ProcessEdges(edges, k + 1, acc)
    ELSE ProcessEdges(edges, k + 1, AppendStar(acc, edges[k]))

----------------------------------------------------------------------------
(* fetchAndProcessStars: sort.Slice by lower-cased NameWithOwner            *)
(* (insertion sort, as sort.Slice does for slices of at most 12 elements)  *)

LessRaw(v, i, j) == StrLess(v[i].NameWithOwner, v[j].NameWithOwner)

Less(v, i, j) ==
    StrLess(ToLower(v[i].NameWithOwner), ToLower(v[j].NameWithOwner))

Swap(v, i, j) == [v EXCEPT ![i] = v[j], ![j] = v[i]]

RECURSIVE InnerLoop(_, _)
InnerLoop(v, j) ==
    IF j > 1 /\ Less(v, j, j - 1) THEN InnerLoop(Swap(v, j, j - 1), j - 1)
    ELSE v

RECURSIVE OuterLoop(_, _)
OuterLoop(v, i) ==
    IF i > Len(v) THEN v ELSE OuterLoop(InnerLoop(v, i), i + 1)

SortSlice(v) == OuterLoop(v, 2)

SortAll(m) == [k \in DOMAIN m |-> SortSlice(m[k])]

----------------------------------------------------------------------------
(* testStars *)

TestStar(name, lic) == [NameWithOwner |-> name, License |-> lic, Archived |-> FALSE]

TotalOfTestStars == 4

testStars ==
    [stars |->
        [k \in {"go", "markdown", "C#", "C++"} |->
            CASE k = "go" ->
                    << IF ~isIgnored(S_stargazer)
                       THEN TestStar(S_stargazer, S_MITLicense) ELSE ZeroStar >>
              [] k = "markdown" ->
                    << IF ~isIgnored(S_stars)
                       THEN TestStar(S_stars, S_MITLicense) ELSE ZeroStar >>
              [] k = "C#" ->
                    << TestStar(S_test, S_MITLicense), TestStar(S_test3, <<>>) >>
              [] k = "C++" ->
                    << TestStar(S_test2, <<>>) >> ],
     total |-> TotalOfTestStars]

----------------------------------------------------------------------------
(* The run *)

NoRet == [stars |-> EmptyMap, total |-> 0, err |-> NoErr]

NoResult == [stars |-> EmptyMap, starsNil |-> TRUE, total |-> 0, err |-> NoErr]

Configs ==
    [GithubToken : Tokens, Test : BOOLEAN, IgnoreRepos : IgnoreLists,
     RateLimit : RateLimits]

\* what a caller of DefaultFetchStars can observe of the run
Cursors(log) == [i \in 1..Len(log) |-> log[i].cursor]

Obs ==
    [pc |-> pc, cursor |-> vars.cursor, stars |-> stars, total |-> total,
     queries |-> Cursors(queries), ret |-> ret]

\* the run in which no load and no save fails takes the same step
RefStep == ref' = IF ref = Obs THEN Obs' ELSE ref

NoCall == [input |-> <<>>, output |-> FALSE, called |-> FALSE]

\* the variables as the Go runtime zeroes them
InitZero ==
    /\ query = ZeroQuery
    /\ vars = [cursor |-> 0]
    /\ stars = EmptyMap
    /\ total = 0
    /\ rateLimiter = [next |-> 0, interval |-> 0]
    /\ rateLimitInfo = ZeroRateLimit
    /\ ctxDeadline = 0
    /\ now = 0
    /\ queries = <<>>
    /\ result = NoResult
    /\ written = <<>>
    /\ got = NoCall
    /\ ref = [pc |-> "start", cursor |-> 0, stars |-> EmptyMap, total |-> 0,
              queries |-> <<>>, ret |-> NoRet]

InitCommon ==
    /\ InitZero
    /\ config \in Configs
    /\ pc = "start"
    /\ rateFile \in {FileMissing, FileCorrupt, FileOf(OldWindow)}
    /\ remote \in [served : {<<>>}, quotaResetAt : ResetTimes,
                   blockedUntil : {0}, exhausted : {0}]
    /\ ret = NoRet

\* the process as main starts it: `ignored` is never assigned
Init == InitCommon /\ ignored = <<>>

\* the package driven by a caller that sets `ignored`, as TestIsIgnored does
InitPkg == InitCommon /\ ignored \in IgnoreLists

----------------------------------------------------------------------------
(* runGenerate, up to the call of fetchAndProcessStars *)

RunGenerate ==
    /\ pc = "start"
    /\ \E templateOk \in BOOLEAN :
          pc' = IF config.GithubToken = "" /\ ~config.Test THEN "fatal"
                ELSE IF ~templateOk THEN "fatal"
                ELSE "process"
    /\ UNCHANGED <<got, config, ignored, query, vars, stars, total, rateLimiter,
                   rateLimitInfo, rateFile, ctxDeadline, now, remote, queries,
                   ret, result, written>>
    /\ RefStep

(* fetchAndProcessStars with config.Test *)

FetchAndProcessTest ==
    /\ pc = "process"
    /\ config.Test
    /\ ret' = [stars |-> testStars.stars, total |-> testStars.total, err |-> NoErr]
    /\ result' = [stars |-> SortAll(testStars.stars), starsNil |-> FALSE,
                  total |-> testStars.total, err |-> NoErr]
    /\ pc' = "processed"
    /\ UNCHANGED <<got, config, ignored, query, vars, stars, total, rateLimiter,
                   rateLimitInfo, rateFile, ctxDeadline, now, remote, queries,
                   written>>
    /\ RefStep

----------------------------------------------------------------------------
(* DefaultFetchStars *)

\* whether an error of loadRateLimitInfo ends the fetch
LoadFatal(err) == FALSE

\* whether an error of saveRateLimitInfo ends the fetch
SaveFatalAlways(err) == err # NoErr

SaveFatal(err) == FALSE

BeginFetchObs(o, loadErr) ==
    IF LoadFatal(loadErr)
    THEN [o EXCEPT !.pc = "fetched",
                   !.ret = [stars |-> EmptyMap, total |-> 0, err |-> loadErr]]
    ELSE [o EXCEPT !.pc = "wait", !.cursor = 0, !.stars = EmptyMap, !.total = 0]

BeginFetch ==
    /\ pc = "process"
    /\ ~config.Test
    /\ UNCHANGED <<got, config, ignored, query, rateFile, now, remote, queries,
                   result, written>>
    /\ IF config.RateLimit = 0
       THEN \* time.Second/time.Duration(0): integer divide by zero
            /\ pc' = "panic"
            /\ UNCHANGED <<vars, stars, total, rateLimiter, rateLimitInfo,
                           ctxDeadline, ret>>
            /\ RefStep
       ELSE LET l == loadRateLimitInfo
                o == BeginFetchObs(Obs, l.err)
            IN  /\ ctxDeadline' = now + Timeout
                /\ rateLimiter' = [next |-> now,
                                   interval |-> Second \div config.RateLimit]
                /\ rateLimitInfo' = l.info
                /\ pc' = o.pc
                /\ vars' = [cursor |-> o.cursor]
                /\ stars' = o.stars
                /\ total' = o.total
                /\ ret' = o.ret
                /\ ref' = BeginFetchObs(ref, NoErr)

\* rateLimiter.Wait(ctx): the outcomes of one call at time `now`
WaitOutcomes ==
    IF now >= ctxDeadline
    THEN { [ok |-> FALSE, at |-> now, err |-> ErrDeadline] }
    ELSE LET grant == Max(now, rateLimiter.next)
         IN  IF grant > ctxDeadline
             THEN { [ok |-> FALSE, at |-> now, err |-> ErrWouldExceed] }
             ELSE IF grant = ctxDeadline /\ grant > now
             THEN { [ok |-> TRUE, at |-> grant, err |-> NoErr],
                    [ok |-> FALSE, at |-> grant, err |-> ErrDeadline] }
             ELSE { [ok |-> TRUE, at |-> grant, err |-> NoErr] }

RateLimiterWait ==
    /\ pc = "wait"
    /\ \E w \in WaitOutcomes :
          /\ now' = w.at
          /\ IF w.ok
             THEN /\ rateLimiter' = [rateLimiter EXCEPT
                                        !.next = w.at + rateLimiter.interval]
                  /\ pc' = "query"
                  /\ ret' = ret
             ELSE /\ rateLimiter' = rateLimiter
                  /\ pc' = "fetched"
                  /\ ret' = [stars |-> stars, total |-> total, err |-> w.err]
    /\ UNCHANGED <<got, config, ignored, query, vars, stars, total, rateLimitInfo,
                   rateFile, ctxDeadline, remote, queries, result, written>>
    /\ RefStep

\* the remote: end of the quota window in force at time t
WindowAt(t) ==
    IF t >= remote.quotaResetAt THEN remote.quotaResetAt + QuotaWindow
    ELSE remote.quotaResetAt

\* index in Repos of the last edge served
RECURSIVE LastServed(_)
LastServed(k) ==
    IF k = 0 THEN 0
    ELSE IF \E j \in 1..Len(remote.served) :
                Repos[k] \in Range(remote.served[j].Edges)
    THEN k ELSE LastServed(k - 1)

\* the remote: the pages it may answer a query for `cursor` with, at time t
RemotePages(cursor, t) ==
    IF cursor < Len(remote.served)
    THEN { [remote.served[cursor + 1] EXCEPT !.RateLimit.ResetAt = WindowAt(t)] }
    ELSE IF Len(remote.served) >= MaxPages THEN {}
    ELSE [Edges : EdgeLists(LastServed(Len(Repos)), MaxEdges),
          PageInfo : [EndCursor : {Len(remote.served) + 1},
                      HasNextPage : IF Len(remote.served) + 1 < MaxPages
                                    THEN BOOLEAN ELSE {FALSE}],
          RateLimit : [Limit : {QuotaLimit},
                       Remaining : {QuotaLimit - (Len(remote.served) + 1)},
                       ResetAt : {WindowAt(t)}]]

\* logger.go 145-189: a page was decoded into `query`
SuccessObs(o, q, saveErr) ==
    IF SaveFatal(saveErr)
    THEN [o EXCEPT !.pc = "fetched",
                   !.ret = [stars |-> o.stars, total |-> o.total, err |-> saveErr]]
    ELSE LET acc == ProcessEdges(q.Edges, 1, [stars |-> o.stars, total |-> o.total])
         IN  IF ~q.PageInfo.HasNextPage
             THEN [o EXCEPT !.stars = acc.stars, !.total = acc.total,
                            !.pc = "fetched",
                            !.ret = [stars |-> acc.stars, total |-> acc.total,
                                     err |-> NoErr]]
             ELSE [o EXCEPT !.stars = acc.stars, !.total = acc.total,
                            !.cursor = q.PageInfo.EndCursor,
                            !.pc = "wait"]

QuerySuccess ==
    /\ pc = "query"
    /\ now < ctxDeadline
    /\ \E d \in Latencies, saveErr \in SaveErrors :
          /\ now + d <= ctxDeadline
          /\ \E page \in RemotePages(vars.cursor, now + d) :
                LET o == SuccessObs(Obs, page, saveErr)
                IN  /\ now' = now + d
                    /\ query' = page
                    /\ remote' = [remote EXCEPT
                          !.served = IF vars.cursor < Len(remote.served)
                                     THEN remote.served
                                     ELSE Append(remote.served, page),
                          !.quotaResetAt = WindowAt(now + d)]
                    /\ queries' = Append(queries,
                          [cursor |-> vars.cursor, at |-> now, outcome |-> "ok",
                           quota |-> page.RateLimit, saved |-> saveErr = NoErr])
                    /\ rateLimitInfo' = page.RateLimit
                    /\ rateFile' = saveRateLimitInfo(page.RateLimit, saveErr)
                    /\ pc' = o.pc
                    /\ vars' = [cursor |-> o.cursor]
                    /\ stars' = o.stars
                    /\ total' = o.total
                    /\ ret' = o.ret
                    /\ ref' = [SuccessObs(ref, page, NoErr) EXCEPT
                                  !.queries = Append(ref.queries, ref.cursor)]
    /\ UNCHANGED <<got, config, ignored, rateLimiter, ctxDeadline, result, written>>

\* logger.go 136-140: the query failed with a quota-exhausted error
RateLimitedAdvance(o) == [o EXCEPT !.pc = "sleep", !.cursor = o.cursor + 1]

RateLimitedObs(o) == [o EXCEPT !.pc = "sleep"]

QueryRateLimited ==
    /\ pc = "query"
    /\ now < ctxDeadline
    /\ remote.exhausted < MaxRateLimitErrors
    /\ \E d \in Latencies :
          /\ now + d <= ctxDeadline
          /\ now + d < WindowAt(now + d)
          /\ isRateLimitError(ErrRateLimited)
          /\ LET o == RateLimitedObs(Obs)
             IN  /\ now' = now + d
                 /\ remote' = [remote EXCEPT
                        !.quotaResetAt = WindowAt(now + d),
                        !.blockedUntil = WindowAt(now + d),
                        !.exhausted = remote.exhausted + 1]
                 /\ queries' = Append(queries,
                        [cursor |-> vars.cursor, at |-> now,
                         outcome |-> "ratelimited",
                         quota |-> ZeroRateLimit, saved |-> FALSE])
                 /\ pc' = o.pc
                 /\ vars' = [cursor |-> o.cursor]
                 /\ stars' = o.stars
                 /\ total' = o.total
                 /\ ret' = o.ret
    /\ UNCHANGED <<got, config, ignored, query, rateLimiter, rateLimitInfo, rateFile,
                   ctxDeadline, result, written>>
    /\ RefStep

\* logger.go 141-142: any other error of client.Query, the deadline of ctx included
QueryFailed ==
    /\ pc = "query"
    /\ \E d \in Latencies :
          LET late == now >= ctxDeadline \/ now + d > ctxDeadline
              e == IF late THEN ErrDeadline ELSE ErrRemote
          IN  /\ ~isRateLimitError(e)
              /\ now' = IF late THEN Max(now, ctxDeadline) ELSE now + d
              /\ queries' = Append(queries,
                     [cursor |-> vars.cursor, at |-> now,
                      outcome |-> IF late THEN "deadline" ELSE "failed",
                      quota |-> ZeroRateLimit, saved |-> FALSE])
              /\ pc' = "fetched"
              /\ ret' = [stars |-> stars, total |-> total, err |-> e]
    /\ UNCHANGED <<got, config, ignored, query, vars, stars, total, rateLimiter,
                   rateLimitInfo, rateFile, ctxDeadline, remote, result, written>>
    /\ RefStep

\* logger.go 138: time.Sleep(time.Until(query.RateLimit.ResetAt)); continue
SleepUntil == Max(now, query.RateLimit.ResetAt)

Sleep ==
    /\ pc = "sleep"
    /\ now' = SleepUntil
    /\ pc' = "wait"
    /\ UNCHANGED <<got, config, ignored, query, vars, stars, total, rateLimiter,
                   rateLimitInfo, rateFile, ctxDeadline, remote, queries, ret,
                   result, written>>
    /\ RefStep

----------------------------------------------------------------------------
(* fetchAndProcessStars after DefaultFetchStars returned; runGenerate's end *)

ProcessResultPartial(r) ==
    [stars |-> SortAll(r.stars), starsNil |-> FALSE, total |-> r.total,
     err |-> r.err]

ProcessResult(r) ==
    IF r.err # NoErr
    THEN [stars |-> EmptyMap, starsNil |-> TRUE, total |-> 0,
          err |-> <<"failed to fetch stars: ">> \o r.err]
    ELSE [stars |-> SortAll(r.stars), starsNil |-> FALSE, total |-> r.total,
          err |-> NoErr]

FetchAndProcessReturn ==
    /\ pc = "fetched"
    /\ result' = ProcessResult(ret)
    /\ pc' = "processed"
    /\ UNCHANGED <<got, config, ignored, query, vars, stars, total, rateLimiter,
                   rateLimitInfo, rateFile, ctxDeadline, now, remote, queries,
                   ret, written>>
    /\ RefStep

\* whether runGenerate goes on to writeList
CallsWriteList(r) == r.err = NoErr

RunGenerateFinish ==
    /\ pc = "processed"
    /\ IF CallsWriteList(result)
       THEN /\ written' = Append(written,
                      [stars |-> result.stars, total |-> result.total])
            /\ pc' = "done"
       ELSE /\ written' = written
            /\ pc' = "fatal"
    /\ UNCHANGED <<got, config, ignored, query, vars, stars, total, rateLimiter,
                   rateLimitInfo, rateFile, ctxDeadline, now, remote, queries,
                   ret, result>>
    /\ RefStep

----------------------------------------------------------------------------

Next ==
    \/ RunGenerate
    \/ FetchAndProcessTest
    \/ BeginFetch
    \/ RateLimiterWait
    \/ QuerySuccess
    \/ QueryRateLimited
    \/ QueryFailed
    \/ Sleep
    \/ FetchAndProcessReturn
    \/ RunGenerateFinish

Spec == Init /\ [][Next]_allvars

SpecPkg == InitPkg /\ [][Next]_allvars

----------------------------------------------------------------------------
(* The package functions called directly, as the package's tests do *)

MaxIgnore == 2          \* entries of an ignore list
MaxBucket == 3          \* records of one language bucket

\* all sequences of at most n elements of S
RECURSIVE SeqsUpTo(_, _)
SeqsUpTo(S, n) ==
    IF n = 0 THEN { <<>> }
    ELSE LET shorter == SeqsUpTo(S, n - 1)
         IN  shorter \cup { Append(t, e) : t \in shorter, e \in S }

IgnoreNames == {S_A, S_b, S_aa, S_us}

Names == {S_a, S_A, S_b, S_B, S_aa, S_Aa, S_us, S_empty}

UnitConfig ==
    [GithubToken |-> "tok", Test |-> FALSE, IgnoreRepos |-> <<>>,
     RateLimit |-> DefaultRateLimit]

InitUnit ==
    /\ InitZero
    /\ config = UnitConfig
    /\ rateFile = FileMissing
    /\ remote = [served |-> <<>>, quotaResetAt |-> 0, blockedUntil |-> 0,
                 exhausted |-> 0]

\* TestIsIgnored: ignored = tt.ignored; got := isIgnored(tt.input)
TestIsIgnored ==
    /\ pc = "unit"
    /\ \E tt \in [ignored : SeqsUpTo(IgnoreNames, MaxIgnore), input : Names] :
          /\ ignored' = tt.ignored
          /\ got' = [input |-> tt.input, output |-> isIgnored(tt.input)',
                     called |-> TRUE]
    /\ UNCHANGED <<config, query, pc, vars, stars, total, rateLimiter,
                   rateLimitInfo, rateFile, ctxDeadline, now, remote, queries,
                   ret, result, written, ref>>

InitIsIgnored == InitUnit /\ pc = "unit" /\ ignored = <<>> /\ ret = NoRet

SpecIsIgnored == InitIsIgnored /\ [][TestIsIgnored]_allvars

\* "other" in every mix of upper and lower case
OtherSpellings ==
    { [i \in 1..Len(S_other) |-> IF i \in up THEN S_other[i] - 32
                                               ELSE S_other[i]] :
         up \in SUBSET (1..Len(S_other)) }

S_othe == <<111,116,104,101>>
S_others == <<111,116,104,101,114,115>>

LicenseNames ==
    OtherSpellings \cup {S_empty, S_MIT, S_MITLicense, S_othe, S_others}

LicenseNicknames == {S_empty, S_MIT, S_other, S_Other}

\* the call of DefaultFetchStars' edge loop:
\* got := determineLicense(edge.Node.LicenseInfo)
CallDetermineLicense ==
    /\ pc = "unit"
    /\ \E licenseInfo \in [Name : LicenseNames, Nickname : LicenseNicknames] :
          got' = [input |-> licenseInfo,
                  output |-> determineLicense(licenseInfo), called |-> TRUE]
    /\ UNCHANGED <<config, ignored, query, pc, vars, stars, total, rateLimiter,
                   rateLimitInfo, rateFile, ctxDeadline, now, remote, queries,
                   ret, result, written, ref>>

InitLicense == InitUnit /\ pc = "unit" /\ ignored = <<>> /\ ret = NoRet

SpecLicense == InitLicense /\ [][CallDetermineLicense]_allvars

\* TestFetchAndProcessStars: DefaultFetchStars replaced by a function that
\* returns a fixed (stars, total, err)
MockStars ==
    { [NameWithOwner |-> n, License |-> <<>>, Archived |-> FALSE] :
         n \in {S_a, S_A, S_B, S_us} }

MockMaps ==
    LET one == SeqsUpTo(MockStars, MaxBucket)
        few == SeqsUpTo(MockStars, 1)
    IN  {EmptyMap}
        \cup { [k \in {"Go"} |-> l] : l \in one }
        \cup { [k \in {"Go", L_Unknown} |-> IF k = "Go" THEN l[1] ELSE l[2]] :
                  l \in one \X few }

InitMock ==
    /\ InitUnit
    /\ pc = "fetched"
    /\ ignored = <<>>
    /\ ret \in [stars : MockMaps, total : {0, 3}, err : {NoErr, ErrRemote}]

SpecMock == InitMock /\ [][FetchAndProcessReturn \/ RunGenerateFinish]_allvars

----------------------------------------------------------------------------
(* Properties *)

IsUpper(c) == c >= 65 /\ c <= 90

SameLetter(c, d) ==
    \/ c = d
    \/ IsUpper(c) /\ d = c + 32
    \/ IsUpper(d) /\ c = d + 32

\* s and t are equal up to the case of their letters
EqualFold(s, t) ==
    /\ Len(s) = Len(t)
    /\ \A i \in 1..Len(s) : SameLetter(s[i], t[i])

Matches(list, name) == \E k \in 1..Len(list) : EqualFold(list[k], name)

RECURSIVE SumOver(_, _)
SumOver(S, f) ==
    IF S = {} THEN 0
    ELSE LET x == CHOOSE y \in S : TRUE
         IN  f[x] + SumOver(S \ {x}, f)

\* number of records in all buckets of m
TotalRecords(m) == SumOver(DOMAIN m, [k \in DOMAIN m |-> Len(m[k])])

\* number of records named `name` in the bucket m[k]
InBucket(m, k, name) ==
    Cardinality({ i \in 1..Len(m[k]) : m[k][i].NameWithOwner = name })

\* number of records named `name` in all buckets of m
Occurrences(m, name) ==
    SumOver(DOMAIN m, [k \in DOMAIN m |-> InBucket(m, k, name)])

\* the edges of all pages served so far
ServedEdges ==
    UNION { Range(remote.served[i].Edges) : i \in 1..Len(remote.served) }

\* the served edges that are neither private nor named in `list`
Qualifying(list) ==
    { e \in ServedEdges : ~e.IsPrivate /\ ~Matches(list, e.NameWithOwner) }

LanguageOf(e) == IF e.Languages = <<>> THEN "Unknown" ELSE e.Languages[1]

\* m holds exactly the edges of Q, each once, in the bucket of its language
HoldsExactly(m, Q) ==
    /\ \A e \in Q :
          /\ LanguageOf(e) \in DOMAIN m
          /\ InBucket(m, LanguageOf(e), e.NameWithOwner) = 1
          /\ Occurrences(m, e.NameWithOwner) = 1
    /\ TotalRecords(m) = Cardinality(Q)

\* the queries that were answered with a page, in order
RECURSIVE Answered(_)
Answered(log) ==
    IF log = <<>> THEN <<>>
    ELSE IF Head(log).outcome = "ok" THEN <<Head(log)>> \o Answered(Tail(log))
    ELSE Answered(Tail(log))

RateLimitedQueries == { i \in 1..Len(queries) : queries[i].outcome = "ratelimited" }

FetchSucceeded == pc = "fetched" /\ ret.err = NoErr

(* C1: in a generate run, a repository whose owner/name equals an entry of   *)
(* Config.IgnoreRepos case-insensitively is in no bucket passed to writeList *)
(* and is not counted in the total passed to it.                             *)
C1_IgnoreListExcluded ==
    \A i \in 1..Len(written) :
       ~config.Test =>
          /\ \A e \in ServedEdges :
                Matches(config.IgnoreRepos, e.NameWithOwner)
                   => Occurrences(written[i].stars, e.NameWithOwner) = 0
          /\ written[i].total = Cardinality(Qualifying(config.IgnoreRepos))

(* C2: when DefaultFetchStars returns without error, the buckets hold exactly *)
(* the served edges that are neither private nor ignored, each once, the      *)
(* count is their number, query k+1 carries the end cursor of page k, and the *)
(* loop stopped at the first page without a next page.                        *)
C2_FetchComplete ==
    FetchSucceeded =>
       LET ans == Answered(queries)
           n == Len(remote.served)
       IN  /\ HoldsExactly(ret.stars, Qualifying(ignored))
           /\ ret.total = Cardinality(Qualifying(ignored))
           /\ Len(ans) = n
           /\ n >= 1
           /\ ans[1].cursor = 0
           /\ \A k \in 1..(n - 1) :
                 /\ ans[k + 1].cursor = remote.served[k].PageInfo.EndCursor
                 /\ remote.served[k].PageInfo.HasNextPage
           /\ ~remote.served[n].PageInfo.HasNextPage

C2_Witness ==
    /\ FetchSucceeded
    /\ Len(remote.served) = 2
    /\ ret.total = 1
    /\ \E e \in ServedEdges : e.IsPrivate
    /\ \E e \in ServedEdges : ~e.IsPrivate /\ Matches(ignored, e.NameWithOwner)

\* the step that receives a quota-exhausted response changes nothing but pc
C3_FailedAttempt ==
    (/\ Len(queries') = Len(queries) + 1
     /\ queries'[Len(queries')].outcome = "ratelimited")
       => /\ vars' = vars
          /\ stars' = stars
          /\ total' = total
          /\ pc' = "sleep"

\* the query after a quota-exhausted response carries the same cursor
C3_SameCursorNext ==
    \A i \in RateLimitedQueries :
       i < Len(queries) => queries[i + 1].cursor = queries[i].cursor

\* a run that succeeded after quota-exhausted responses holds each record once
C3_NothingTwice ==
    (FetchSucceeded /\ RateLimitedQueries # {}) =>
       /\ HoldsExactly(ret.stars, Qualifying(ignored))
       /\ ret.total = Cardinality(Qualifying(ignored))

(* C3: a quota-exhausted response leaves the cursor, the buckets and the     *)
(* count as they were and the same page is queried next; a run that met      *)
(* quota-exhausted responses and then succeeded holds every record once.     *)
C3_RetrySamePage ==
    /\ [](C3_SameCursorNext /\ C3_NothingTwice)
    /\ [][C3_FailedAttempt]_allvars

C3_Witness ==
    /\ FetchSucceeded
    /\ \E i \in RateLimitedQueries : queries[i].cursor = 1
    /\ Len(remote.served) = 2
    /\ remote.served[2].Edges # <<>>
    /\ ret.total = 2

(* C4: after a quota-exhausted response no query is issued before the reset  *)
(* time the remote reported for the quota window, the first response of the  *)
(* run included.                                                             *)
C4_NoQueryBeforeReset == pc = "query" => now >= remote.blockedUntil

(* C5: the fetcher is never suspended, and issues no query, past the overall *)
(* deadline: at both suspension points the fetch ends at the deadline.       *)
C5_DeadlineRespected == pc \in {"wait", "query", "sleep"} => now <= ctxDeadline

(* C6: a hard failure of the fetcher is not retried, fetchAndProcessStars    *)
(* returns a nil map, count 0 and an error, and writeList is never called.   *)
C6_HardFailureAborts ==
    /\ \A i \in 1..(Len(queries) - 1) :
          queries[i].outcome \in {"ok", "ratelimited"}
    /\ ret.err # NoErr =>
          /\ pc \in {"fetched", "processed", "fatal"}
          /\ written = <<>>
    /\ (ret.err # NoErr /\ pc \in {"processed", "fatal"}) =>
          /\ result.starsNil
          /\ result.stars = EmptyMap
          /\ result.total = 0
          /\ result.err # NoErr

C6_Witness ==
    /\ pc = "fatal"
    /\ ret.err # NoErr
    /\ ret.total > 0
    /\ queries # <<>>
    /\ queries[Len(queries)].outcome = "failed"

(* C7: for every successful return of fetchAndProcessStars, from the fetcher *)
(* or from the test data, the total equals the number of records in all      *)
(* language buckets.                                                         *)
C7_TotalIsCount ==
    (pc \in {"processed", "done"} /\ result.err = NoErr) =>
       result.total = TotalRecords(result.stars)

(* C8: isIgnored(N) is true exactly when some entry of the ignore list       *)
(* equals N up to case; for an empty list it is false for every N.           *)
C8_IsIgnoredIff ==
    /\ \A N \in Names : isIgnored(N) <=> Matches(ignored, N)
    /\ got.called => (got.output <=> Matches(ignored, got.input))
    /\ ignored = <<>> => \A N \in Names : ~isIgnored(N)

C8_Witness ==
    /\ got.called
    /\ got.output
    /\ Len(ignored) = 2
    /\ got.input \notin Range(ignored)

CountIn(v, x) == Cardinality({ i \in 1..Len(v) : v[i] = x })

IsPermutation(a, b) ==
    /\ Len(a) = Len(b)
    /\ \A x \in Range(a) \cup Range(b) : CountIn(a, x) = CountIn(b, x)

SortedFold(v) ==
    \A i, j \in 1..Len(v) :
       i < j => ~StrLess(ToLower(v[j].NameWithOwner), ToLower(v[i].NameWithOwner))

(* C9: the sort stage returns the same language keys, each list a            *)
(* permutation of its input, sorted ascending by lower-cased fullName, and   *)
(* the total unchanged.                                                      *)
C9_SortStage ==
    (pc \in {"processed", "done"} /\ result.err = NoErr) =>
       /\ ~result.starsNil
       /\ DOMAIN result.stars = DOMAIN ret.stars
       /\ \A k \in DOMAIN result.stars :
             /\ IsPermutation(result.stars[k], ret.stars[k])
             /\ SortedFold(result.stars[k])
       /\ result.total = ret.total

C9_Witness ==
    /\ pc = "processed"
    /\ result.err = NoErr
    /\ "Go" \in DOMAIN ret.stars
    /\ Len(ret.stars["Go"]) = 3
    /\ result.stars["Go"] # ret.stars["Go"]
    /\ ret.stars["Go"][1].NameWithOwner = S_B
    /\ ret.stars["Go"][2].NameWithOwner = S_us
    /\ ret.stars["Go"][3].NameWithOwner = S_a

(* C10: whether the load at the start and the saves after the pages fail or  *)
(* not, the fetch issues the same queries and returns the same buckets,      *)
(* count and error as the run in which every load and save succeeds.         *)
C10_StoreNeverFatal == ref = Obs

C10_Witness ==
    /\ FetchSucceeded
    /\ Len(remote.served) = 2
    /\ ret.total > 0
    /\ rateFile.kind = "missing"

\* the times at which rateLimiter.Wait let a query proceed
GrantTimes ==
    [i \in 1..Len(queries) |-> queries[i].at]
       \o (IF pc = "query" THEN <<now>> ELSE <<>>)

\* the limiter's part of the claim, for the runs that reach the loop
C11_Spacing ==
    LET g == GrantTimes
    IN  /\ g # <<>> => g[1] = ctxDeadline - Timeout
        /\ \A i \in 1..(Len(g) - 1) :
              (g[i + 1] - g[i]) * config.RateLimit >= Second
        /\ g # <<>> =>
              (g[Len(g)] - g[1]) * config.RateLimit >= (Len(g) - 1) * Second

(* C11: for every configured rateLimit the fetcher reaches its first query   *)
(* without blocking, and each later acquisition comes at least 1/rateLimit   *)
(* seconds after the one before, so n of them span (n-1)/rateLimit seconds.  *)
C11_LimiterSpacing ==
    /\ pc # "panic"
    /\ C11_Spacing

(* C12: determineLicense returns the nickname whenever it is non-empty,      *)
(* whatever the name; otherwise the name, except that an empty name or a     *)
(* name equal to "other" up to letter case gives the empty license.          *)
C12_DetermineLicense ==
    got.called =>
       LET name == got.input.Name
           nickname == got.input.Nickname
       IN  IF nickname # <<>> THEN got.output = nickname
           ELSE IF name = <<>> \/ EqualFold(name, S_other)
                THEN got.output = <<>>
           ELSE got.output = name

\* a license named "Other" without nickname was given and came out empty
C12_Witness ==
    /\ got.called
    /\ got.input.Nickname = <<>>
    /\ got.input.Name = S_Other
    /\ got.output = <<>>

\* the persisted window is the quota of the latest answered query
C13_PersistedIsLatest ==
    LET a == Answered(queries)
    IN  pc = "query" /\ a # <<>> /\ a[Len(a)].saved =>
           /\ rateFile.kind = "json"
           /\ Unmarshal(rateFile.data) = a[Len(a)].quota

\* a step in which no query is answered with a page leaves the store alone
C13_OnlyThen ==
    Answered(queries') = Answered(queries) => rateFile' = rateFile

(* C13: the rate-limit window is written to the store after every successful *)
(* page fetch and only then: when a query is about to be issued and the last *)
(* save succeeded, the stored window is the quota of the most recent page    *)
(* response of this run; steps without a page response (failed and           *)
(* quota-exhausted queries included) leave the store as it was, so that      *)
(* before the first page it holds what was found at the start.               *)
C13_WindowPersisted ==
    /\ []C13_PersistedIsLatest
    /\ [][C13_OnlyThen]_allvars

\* a page was answered and saved, the next query was refused for quota, and
\* the fetcher is about to query again with the first page's window stored
C13_Witness ==
    /\ pc = "query"
    /\ Len(queries) = 2
    /\ queries[1].outcome = "ok" /\ queries[1].saved
    /\ queries[2].outcome = "ratelimited"
    /\ Unmarshal(rateFile.data) = queries[1].quota
    /\ rateFile.kind = "json"

====
